---------------------------- MODULE Spec2Model ----------------------------
(***************************************************************************)
(* A model of static/script.js: the browser front end of The-MoodGenesis.  *)
(*                                                                         *)
(* The page is one event loop.  Every handler runs to its next `await`     *)
(* without interruption, so each action below is either the synchronous    *)
(* prefix of a handler (up to and including the fetch it issues) or the    *)
(* continuation that runs when one outstanding request settles.           *)
(*                                                                         *)
(* Strings are abstracted to records [lead, body, trail, tag]: the number  *)
(* of leading whitespace characters, the length of the trimmed text, the   *)
(* number of trailing whitespace characters and a tag naming the content.  *)
(***************************************************************************)
EXTENDS Integers, Sequences, FiniteSets, Bags, TLC

(***************************************************************************)
(* Bounds of the model.                                                    *)
(***************************************************************************)
\* longest transcript a send may start from
MaxHistory == 2

(***************************************************************************)
(* Program constants.                                                      *)
(***************************************************************************)
\* the shortest story handleAnalysis accepts
MinStoryLen == 100
\* the shortest query findBookSummary accepts
MinQueryLen == 5
\* the number of items an analysis must hold
NumBeats == 7

(***************************************************************************)
(* Strings.                                                                *)
(***************************************************************************)
Str(lead, body, trail, tag) ==
    [lead |-> lead, body |-> body, trail |-> trail, tag |-> tag]

Empty == Str(0, 0, 0, "")

\* String.prototype.length
StrLen(s) == s.lead + s.body + s.trail

\* String.prototype.trim
Trim(s) == IF s.body = 0 THEN Empty ELSE [s EXCEPT !.lead = 0, !.trail = 0]

\* JavaScript truthiness of a string: only the empty string is falsy
Truthy(s) == StrLen(s) > 0

\* the story texts the user may put into #storyInput
Short99 == Str(0, MinStoryLen - 1, 0, "short")
StoryA == Str(1, MinStoryLen, 1, "A")
StoryTexts == {Empty, Short99, StoryA}

\* the texts the user may put into #chatInput
Blank == Str(1, 0, 0, "")
Hello == Str(0, 5, 1, "Hello")
ChatTexts == {Empty, Blank, Hello}

\* the texts the user may put into #bookTitleInput
Short4 == Str(0, MinQueryLen - 1, 0, "Drac")
Padded4 == Str(1, MinQueryLen - 1, 0, "Drac")
Query5 == Str(0, MinQueryLen, 1, "Ch. 5")
QueryTexts == {Empty, Short4, Padded4, Query5}

\* the replies the chat backend may give
Reply == Str(0, 14, 0, "Hello traveler")
ChatReplies == {Empty, Reply}

\* the excerpts the search backend may give
ExcerptA == Str(1, MinStoryLen, 1, "A")
Excerpts == {Empty, ExcerptA}

\* activeCharacter = null
NoCharacter == "<null>"
CharacterLists == {<< >>, <<"Mina", "Jonathan">>, <<"Jonathan">>}

(***************************************************************************)
(* Analysis payloads.  result.analysis is a JSON-encoded string; what      *)
(* JSON.parse makes of it is a syntax error or an array of items, an item  *)
(* being an object with a TensionScore.                                    *)
(***************************************************************************)
Item(score) == [TensionScore |-> score]

Rising == [i \in 1..NumBeats |-> Item(10 * i)]
Flat == [i \in 1..NumBeats |-> Item(50)]
TooFew == [i \in 1..(NumBeats - 1) |-> Item(50)]
TooMany == [i \in 1..(NumBeats + 1) |-> Item(50)]

Encoded(kind, items) == [kind |-> kind, items |-> items]
AnalysisStrings ==
    {Encoded("garbage", << >>)}
        \cup {Encoded("array", a) : a \in {<< >>, TooFew, TooMany, Rising, Flat}}

\* lastAnalysisData = null, or the array it holds
NoData == [some |-> FALSE]
Data(a) == [some |-> TRUE, val |-> a]

(***************************************************************************)
(* Results of a call that may throw.                                       *)
(***************************************************************************)
Threw(message) == [threw |-> TRUE, message |-> message]
Returned(value) == [threw |-> FALSE, value |-> value]

(***************************************************************************)
(* fetchAPI.  A response is what fetch settles with: net = FALSE when the  *)
(* request could not complete, json = FALSE when the body is not JSON,     *)
(* error the body's `error` field ("" when absent) and payload the field   *)
(* the caller reads.                                                       *)
(***************************************************************************)
Response(net, json, status, error, payload) ==
    [net |-> net, json |-> json, status |-> status, error |-> error,
     payload |-> payload]

\* response.ok
ResponseOk(status) == status >= 200 /\ status <= 299

ServerErrorMessage(status) == "Server error: " \o ToString(status)

FetchAPI(resp) ==
    IF ~resp.net THEN Threw("Failed to fetch")
    ELSE IF ~resp.json THEN Threw("Unexpected token < in JSON")
    ELSE IF ~ResponseOk(resp.status)
         THEN Threw(IF resp.error # "" THEN resp.error
                    ELSE ServerErrorMessage(resp.status))
    ELSE Returned(resp.payload)

\* the responses a backend may give when it sends `payload` on success and
\* `none` otherwise
Responses(payloads, none) ==
    {Response(TRUE, TRUE, 200, "", p) : p \in payloads}
        \cup {Response(FALSE, FALSE, 0, "", none),
              Response(TRUE, TRUE, 500, "", none)}

(***************************************************************************)
(* Views.  The keys of the `views` object, and the names switchView may be *)
(* called with: a name that is no key of `views` shows no panel.           *)
(***************************************************************************)
ViewKeys == {"analysis", "chat", "about"}
ViewNames == ViewKeys \cup {"settings"}

(***************************************************************************)
(* State.                                                                  *)
(***************************************************************************)
VARIABLES
    \* script.js:10-15
    isAnalyzing, isSearching, isChatting, chatHistory, lastAnalysisData,
    activeCharacter,
    \* the values of #storyInput and #summaryTextarea
    storyInput, summaryTextarea,
    \* the `disabled` property of the controls
    chatInputDisabled, sendChatButtonDisabled, analyzeButtonDisabled,
    findSummaryButtonDisabled,
    \* whether #summaryOutput carries the class `hidden`
    summaryOutputHidden,
    \* the text of the three status lines
    statusMessage, searchStatusMessage, chatStatusMessage,
    \* the rendered panels
    analysisOutput, analysisOutputSummary, characterSlots,
    \* the text of the last alert() and the last file handed to the browser
    alertText, downloadedFile,
    \* script.js:40-44: for each view, whether its panel carries the class
    \* `hidden`
    views,
    \* the requests fetch has sent and not yet settled, each with the locals
    \* of the handler that awaits it (a bag: nothing in the code keeps two
    \* equal requests from being outstanding at once)
    outstanding,
    \* history variables: the branch the handler took when the latest event
    \* was the user invoking one ("" after any other event), and the data of
    \* the last analysis run that reached the end of updateUI
    last, lastSucceeded,
    \* history variable: the story text that run sent to the backend
    analysedStory

flags == <<isAnalyzing, isSearching, isChatting>>
session == <<chatHistory, lastAnalysisData, activeCharacter>>
inputs == <<storyInput, summaryTextarea>>
chatControls == <<chatInputDisabled, sendChatButtonDisabled>>
searchView == <<findSummaryButtonDisabled, summaryOutputHidden, searchStatusMessage>>
analysisView == <<analyzeButtonDisabled, statusMessage, analysisOutput, analysisOutputSummary>>
chatView == <<chatStatusMessage, characterSlots>>
exported == <<alertText, downloadedFile>>

vars == <<flags, session, inputs, chatControls, searchView, analysisView,
          chatView, exported, views, outstanding, last, lastSucceeded,
          analysedStory>>

\* a request and the locals of the handler awaiting it
Request(endpoint, text, history, character, analysisData) ==
    [endpoint |-> endpoint, text |-> text, history |-> history,
     character |-> character, analysisData |-> analysisData]

Sent(req) == outstanding (+) SetToBag({req})
Settled(req) == outstanding (-) SetToBag({req})
Awaiting(endpoint) == {r \in BagToSet(outstanding) : r.endpoint = endpoint}

\* the number of outstanding requests to the endpoints in `family`
Pending(family) ==
    BagCardinality([r \in {q \in BagToSet(outstanding) : q.endpoint \in family}
                        |-> CopiesIn(r, outstanding)])

Message(role, text) == [role |-> role, text |-> text]

(***************************************************************************)
(* The page after the script has loaded and the DOMContentLoaded handler   *)
(* has run switchView('analysis').  index.html is what decides whether the *)
(* chat controls start disabled.                                           *)
(***************************************************************************)
Init ==
    /\ isAnalyzing = FALSE /\ isSearching = FALSE /\ isChatting = FALSE
    /\ chatHistory = << >>
    /\ lastAnalysisData = NoData
    /\ activeCharacter = NoCharacter
    /\ storyInput = Empty /\ summaryTextarea = Empty
    /\ chatInputDisabled \in BOOLEAN
    /\ sendChatButtonDisabled = chatInputDisabled
    /\ analyzeButtonDisabled = FALSE
    /\ findSummaryButtonDisabled = FALSE
    /\ summaryOutputHidden = TRUE
    /\ statusMessage = "" /\ searchStatusMessage = "" /\ chatStatusMessage = ""
    /\ analysisOutput = [kind |-> "initial"]
    /\ analysisOutputSummary = [shown |-> FALSE]
    /\ characterSlots = << >>
    /\ alertText = "" /\ downloadedFile = NoData
    /\ views = [key \in ViewKeys |-> key # "analysis"]
    /\ outstanding = EmptyBag
    /\ last = ""
    /\ lastSucceeded = NoData
    /\ analysedStory = Empty

(***************************************************************************)
(* The user edits the story.  #chatInput and #bookTitleInput are read by   *)
(* one handler each, which takes whatever the user has typed by then: a    *)
(* handler's reset of #chatInput to '' is the user typing nothing.         *)
(***************************************************************************)
EditStory(stories) ==
    /\ \E s \in stories : s # storyInput /\ storyInput' = s
    /\ last' = ""
    /\ UNCHANGED <<flags, session, summaryTextarea, chatControls,
                   searchView, analysisView, chatView, exported, outstanding,
                   lastSucceeded, analysedStory, views>>

(***************************************************************************)
(* View management.  The highlight of the navigation entries and the       *)
(* scroll position of #chatOutput are written and never read, and are left *)
(* out.                                                                    *)
(***************************************************************************)
\* SwitchView without the loop that hides every view first
SwitchViewWithoutHiding(names) ==
    \E viewName \in names :
        /\ views' = [key \in ViewKeys |->
                        IF key = viewName THEN FALSE ELSE views[key]]
        /\ last' = "switchView:" \o viewName
        /\ UNCHANGED <<flags, session, inputs, chatControls, searchView,
                       analysisView, chatView, exported, outstanding,
                       lastSucceeded, analysedStory>>

\* switchView(viewName)
SwitchView(names) ==
    \E viewName \in names :
        /\ views' = [key \in ViewKeys |-> key # viewName]
        /\ last' = "switchView:" \o viewName
        /\ UNCHANGED <<flags, session, inputs, chatControls, searchView,
                       analysisView, chatView, exported, outstanding,
                       lastSucceeded, analysedStory>>

(***************************************************************************)
(* 2. Story analysis.                                                      *)
(***************************************************************************)
\* JSON.parse(result.analysis)
JSONParse(encoded) ==
    IF encoded.kind = "garbage" THEN Threw("Unexpected token in JSON")
    ELSE Returned(encoded)

\* ValidStructure accepting every array of at least 7 items
ValidStructureAtLeast(parsed) ==
    parsed.kind = "array" /\ Len(parsed.items) >= NumBeats

\* Array.isArray(analysisData) && analysisData.length === 7
ValidStructure(parsed) == parsed.kind = "array" /\ Len(parsed.items) = NumBeats

StructureMessage(parsed) ==
    "Analysis structure error: Expected 7 items, got "
        \o (IF parsed.kind = "array" THEN ToString(Len(parsed.items))
            ELSE "undefined") \o "."

\* AnalysisBusy with the busy-flag ignored
AnalysisBusyIgnored == FALSE

\* if (isAnalyzing) return;
AnalysisBusy == isAnalyzing

\* StoryTooShort with the limit off by one
StoryTooShortOffByOne(storyText) == StrLen(storyText) < MinStoryLen - 1

\* storyText.length < 100
StoryTooShort(storyText) == StrLen(storyText) < MinStoryLen

RECURSIVE Sum(_)
Sum(scores) == IF scores = << >> THEN 0 ELSE Head(scores) + Sum(Tail(scores))

\* RoundDiv truncating where Math.round rounds to the nearest integer
RoundDivTruncating(x, n) == x \div n

\* Math.round(x / n) for integers x >= 0 and n > 0
RoundDiv(x, n) == (2 * x + n) \div (2 * n)

\* Math.round(scores.reduce((a, b) => a + b) / scores.length)
AverageTension(analysisData) ==
    RoundDiv(Sum([i \in 1..Len(analysisData) |-> analysisData[i].TensionScore]),
             Len(analysisData))

\* the catch block of handleAnalysis
AnalysisCatch(message) ==
    /\ analysisOutput' = [kind |-> "error", message |-> "Error: " \o message]
    /\ statusMessage' = "Analysis failed."
    /\ chatInputDisabled' = TRUE
    /\ sendChatButtonDisabled' = TRUE

\* the finally block of handleAnalysis
AnalysisFinally ==
    /\ isAnalyzing' = FALSE
    /\ analyzeButtonDisabled' = FALSE

\* RenderCharacterSlots without emptying the selector first
RenderCharacterSlotsAppending(characters) ==
    /\ characterSlots' = characterSlots \o characters
    /\ activeCharacter' = characters[1]

\* renderCharacterSlots(characters), called with a non-empty list, and the
\* setActiveCharacter(characters[0]) it ends with
RenderCharacterSlots(characters) ==
    /\ characterSlots' = characters
    /\ activeCharacter' = characters[1]

\* updateUI(analysisData, characters), with the renderCharacterSlots and
\* setActiveCharacter calls it makes; its last statements overwrite the
\* transcript and the placeholder those calls have set
UpdateUI(analysisData, characters) ==
    /\ analysisOutput' = [kind |-> "cards", data |-> analysisData]
    /\ analysisOutputSummary' =
           [shown |-> TRUE, average |-> AverageTension(analysisData)]
    /\ IF Len(characters) > 0
       THEN /\ RenderCharacterSlots(characters)
            /\ chatStatusMessage' =
                   "Character list loaded. Click an icon to start chatting!"
       ELSE /\ characterSlots' = characterSlots
            /\ activeCharacter' = NoCharacter
            /\ chatStatusMessage' =
                   "Ready to chat, but no specific characters were identified in the text."
    /\ statusMessage' = "Analysis complete!"
    /\ chatHistory' = << >>
    /\ chatInputDisabled' = FALSE
    /\ sendChatButtonDisabled' = FALSE

\* HandleAnalysis with lastAnalysisData cleared before the story is validated
HandleAnalysisClearsFirst ==
    LET storyText == Trim(storyInput) IN
    IF AnalysisBusy
    THEN /\ last' = "handleAnalysis:busy"
         /\ UNCHANGED <<flags, session, inputs, chatControls, searchView,
                        analysisView, chatView, exported, outstanding,
                        lastSucceeded, analysedStory, views>>
    ELSE IF StoryTooShort(storyText)
    THEN /\ statusMessage' =
                "Error: Please enter a longer story (at least 100 characters) for a meaningful analysis."
         /\ lastAnalysisData' = NoData
         /\ last' = "handleAnalysis:short"
         /\ UNCHANGED <<flags, chatHistory, activeCharacter, inputs,
                        chatControls, searchView, analyzeButtonDisabled,
                        analysisOutput, analysisOutputSummary, chatView,
                        exported, outstanding, lastSucceeded, analysedStory, views>>
    ELSE /\ isAnalyzing' = TRUE
         /\ analyzeButtonDisabled' = TRUE
         /\ statusMessage' = "Analyzing story across 4 dimensions..."
         /\ lastAnalysisData' = NoData
         /\ chatInputDisabled' = TRUE
         /\ sendChatButtonDisabled' = TRUE
         /\ outstanding' = Sent(Request("/analyze", storyText, << >>, NoCharacter, << >>))
         /\ last' = "handleAnalysis:sent"
         /\ UNCHANGED <<isSearching, isChatting, chatHistory, activeCharacter,
                        inputs, searchView, analysisOutput,
                        analysisOutputSummary, chatView, exported,
                        lastSucceeded, analysedStory, views>>

\* handleAnalysis up to its first await
HandleAnalysis ==
    LET storyText == Trim(storyInput) IN
    IF AnalysisBusy
    THEN /\ last' = "handleAnalysis:busy"
         /\ UNCHANGED <<flags, session, inputs, chatControls, searchView,
                        analysisView, chatView, exported, outstanding,
                        lastSucceeded, analysedStory, views>>
    ELSE IF StoryTooShort(storyText)
    THEN /\ statusMessage' =
                "Error: Please enter a longer story (at least 100 characters) for a meaningful analysis."
         /\ last' = "handleAnalysis:short"
         /\ UNCHANGED <<flags, session, inputs, chatControls, searchView,
                        analyzeButtonDisabled, analysisOutput,
                        analysisOutputSummary, chatView, exported, outstanding,
                        lastSucceeded, analysedStory, views>>
    ELSE /\ isAnalyzing' = TRUE
         /\ analyzeButtonDisabled' = TRUE
         /\ statusMessage' = "Analyzing story across 4 dimensions..."
         /\ lastAnalysisData' = NoData
         /\ chatInputDisabled' = TRUE
         /\ sendChatButtonDisabled' = TRUE
         /\ outstanding' = Sent(Request("/analyze", storyText, << >>, NoCharacter, << >>))
         /\ last' = "handleAnalysis:sent"
         /\ UNCHANGED <<isSearching, isChatting, chatHistory, activeCharacter,
                        inputs, searchView, analysisOutput,
                        analysisOutputSummary, chatView, exported,
                        lastSucceeded, analysedStory, views>>

\* ExtractRequest reading the story input anew
ExtractRequestRereading(req, analysisData) ==
    Request("/extract_characters", Trim(storyInput), << >>, NoCharacter,
            analysisData)

\* fetchAPI('/extract_characters', { text: storyText }): the request the run
\* awaiting `req` sends, storyText being the local it sent to /analyze
ExtractRequest(req, analysisData) ==
    Request("/extract_characters", req.text, << >>, NoCharacter, analysisData)

\* what the /analyze backend may answer
AnalyzeResponses == Responses(AnalysisStrings, Encoded("garbage", << >>))

\* handleAnalysis from the first await to the second
AnalyzeSettles(responses) ==
    \E req \in Awaiting("/analyze"), resp \in responses :
        LET result == FetchAPI(resp)
            parsed == JSONParse(result.value)
            analysisData == parsed.value
            failure == IF result.threw THEN result.message
                       ELSE IF parsed.threw THEN parsed.message
                       ELSE StructureMessage(analysisData)
        IN  IF result.threw \/ parsed.threw \/ ~ValidStructure(analysisData)
            THEN /\ AnalysisCatch(failure)
                 /\ AnalysisFinally
                 /\ outstanding' = Settled(req)
                 /\ last' = ""
                 /\ UNCHANGED <<isSearching, isChatting, session, inputs,
                                searchView, analysisOutputSummary, chatView,
                                exported, lastSucceeded, analysedStory, views>>
            ELSE /\ lastAnalysisData' = Data(analysisData.items)
                 /\ last' = ""
                 /\ outstanding' =
                        Settled(req) (+) SetToBag({ExtractRequest(req, analysisData.items)})
                 /\ UNCHANGED <<flags, chatHistory, activeCharacter, inputs,
                                chatControls, searchView, analysisView,
                                chatView, exported, lastSucceeded, analysedStory, views>>

\* what the /extract_characters backend may answer (`characters || []`
\* makes an absent list the empty one)
CharacterResponses == Responses(CharacterLists, << >>)

\* handleAnalysis from the second await to its end
CharactersSettle(responses) ==
    \E req \in Awaiting("/extract_characters"), resp \in responses :
        LET charResult == FetchAPI(resp)
        IN  /\ outstanding' = Settled(req)
            /\ AnalysisFinally
            /\ last' = ""
            /\ IF charResult.threw
               THEN /\ AnalysisCatch(charResult.message)
                    /\ UNCHANGED <<isSearching, isChatting, session, inputs,
                                   searchView, analysisOutputSummary, chatView,
                                   exported, lastSucceeded, analysedStory, views>>
               ELSE /\ UpdateUI(req.analysisData, charResult.value)
                    /\ lastSucceeded' = Data(req.analysisData)
                    /\ analysedStory' = req.text
                    /\ UNCHANGED <<isSearching, isChatting, lastAnalysisData,
                                   storyInput, summaryTextarea, searchView,
                                   exported, views>>

(***************************************************************************)
(* 3. Character chat.  #chatOutput, the rendering of the transcript, is    *)
(* written and never read, and is left out.                                *)
(***************************************************************************)
\* SetActiveCharacter keeping the transcript when the character stays
SetActiveCharacterKeepsOwn(name) ==
    /\ activeCharacter' = name
    /\ chatHistory' = IF name = activeCharacter THEN chatHistory ELSE << >>

\* setActiveCharacter(name)
SetActiveCharacter(name) ==
    /\ activeCharacter' = name
    /\ chatHistory' = << >>

\* a click on one of the icons renderCharacterSlots has put into the selector
ClickCharacter ==
    \E i \in 1..Len(characterSlots) :
        /\ SetActiveCharacter(characterSlots[i])
        /\ last' = ""
        /\ UNCHANGED <<flags, lastAnalysisData, inputs, chatControls,
                       searchView, analysisView, chatStatusMessage,
                       characterSlots, exported, outstanding, lastSucceeded, analysedStory, views>>

\* ChatBlocked without the busy-flag
ChatBlockedIgnoringPendingSend == chatInputDisabled

\* if (isChatting || chatInput.disabled) return;
ChatBlocked == isChatting \/ chatInputDisabled

\* MissingCharacter with the check left out
MissingCharacterIgnored == FALSE

\* if (!activeCharacter)
MissingCharacter == activeCharacter = NoCharacter

\* the user message handleChat pushes before it sends
UserMessage(userText) == Message("user", userText)

\* SentHistory taken before the user message is pushed
SentHistoryBeforePush(userText) == chatHistory

\* the history handleChat puts into the body of the /chat request
SentHistory(userText) == Append(chatHistory, UserMessage(userText))

\* ChatFinally with the flag cleared in the try block only
ChatFinallyKeepsFlag ==
    /\ isChatting' = isChatting
    /\ sendChatButtonDisabled' = FALSE

\* the finally block of handleChat
ChatFinally ==
    /\ isChatting' = FALSE
    /\ sendChatButtonDisabled' = FALSE

\* handleChat up to its await
HandleChat(texts) ==
    \E typed \in texts :
    LET userText == Trim(typed)
        storyContext == Trim(storyInput)
    IN  IF ChatBlocked
        THEN /\ last' = "handleChat:blocked"
             /\ UNCHANGED <<flags, session, inputs, chatControls, searchView,
                            analysisView, chatView, exported, outstanding,
                            lastSucceeded, analysedStory, views>>
        ELSE IF ~Truthy(userText)
        THEN /\ last' = "handleChat:empty"
             /\ UNCHANGED <<flags, session, inputs, chatControls, searchView,
                            analysisView, chatView, exported, outstanding,
                            lastSucceeded, analysedStory, views>>
        ELSE IF ~Truthy(storyContext)
        THEN /\ chatStatusMessage' =
                    "Error: Please run a successful analysis first to provide character context!"
             /\ last' = "handleChat:noStory"
             /\ UNCHANGED <<flags, session, inputs, chatControls, searchView,
                            analysisView, characterSlots, exported,
                            outstanding, lastSucceeded, analysedStory, views>>
        ELSE IF MissingCharacter
        THEN /\ chatStatusMessage' =
                    "Error: Please select a character icon to start chatting!"
             /\ last' = "handleChat:noCharacter"
             /\ UNCHANGED <<flags, session, inputs, chatControls, searchView,
                            analysisView, characterSlots, exported,
                            outstanding, lastSucceeded, analysedStory, views>>
        ELSE /\ Len(chatHistory) < MaxHistory
             /\ chatHistory' = Append(chatHistory, UserMessage(userText))
             /\ isChatting' = TRUE
             /\ sendChatButtonDisabled' = TRUE
             /\ chatStatusMessage' = activeCharacter \o " is thinking..."
             /\ outstanding' = Sent(Request("/chat", storyContext,
                    SentHistory(userText), activeCharacter, << >>))
             /\ last' = "handleChat:sent"
             /\ UNCHANGED <<isAnalyzing, isSearching, lastAnalysisData,
                            activeCharacter, storyInput, summaryTextarea,
                            chatInputDisabled, searchView, analysisView,
                            characterSlots, exported, lastSucceeded, analysedStory, views>>

\* what the /chat backend may answer
ChatResponses == Responses(ChatReplies, Empty)

\* handleChat from its await to its end
ChatSettles(responses) ==
    \E req \in Awaiting("/chat"), resp \in responses :
        LET result == FetchAPI(resp) IN
        /\ outstanding' = Settled(req)
        /\ ChatFinally
        /\ last' = ""
        /\ IF result.threw
           THEN /\ chatStatusMessage' = "Chat failed: " \o result.message
                /\ UNCHANGED chatHistory
           ELSE IF Truthy(result.value)
           THEN /\ chatHistory' = Append(chatHistory, Message("model", result.value))
                /\ chatStatusMessage' = "Response received."
           ELSE /\ chatStatusMessage' =
                       "Error: No valid response from the character AI."
                /\ UNCHANGED chatHistory
        /\ UNCHANGED <<isAnalyzing, isSearching, lastAnalysisData,
                       activeCharacter, inputs, chatInputDisabled, searchView,
                       analysisView, characterSlots, exported, lastSucceeded, analysedStory, views>>

(***************************************************************************)
(* 1. Content acquisition.                                                 *)
(***************************************************************************)
\* if (isSearching) return;
SearchBusy == isSearching

\* QueryTooShort with the limit off by one
QueryTooShortOffByOne(query) == StrLen(query) < MinQueryLen - 1

\* query.length < 5
QueryTooShort(query) == StrLen(query) < MinQueryLen

\* the finally block of findBookSummary
SearchFinally ==
    /\ isSearching' = FALSE
    /\ findSummaryButtonDisabled' = FALSE

\* findBookSummary up to its await; #bookTitleInput is written by the user
\* alone, so its value is whatever the user has typed when the handler runs
FindBookSummary(queries) ==
    \E typed \in queries :
        LET query == Trim(typed) IN
        IF SearchBusy
        THEN /\ last' = "findBookSummary:busy"
             /\ UNCHANGED <<flags, session, inputs, chatControls, searchView,
                            analysisView, chatView, exported, outstanding,
                            lastSucceeded, analysedStory, views>>
        ELSE IF QueryTooShort(query)
        THEN /\ searchStatusMessage' =
                    "Please enter a title and a specific section (e.g., 'Chapter 5 of Dracula')."
             /\ last' = "findBookSummary:short"
             /\ UNCHANGED <<flags, session, inputs, chatControls,
                            findSummaryButtonDisabled, summaryOutputHidden,
                            analysisView, chatView, exported, outstanding,
                            lastSucceeded, analysedStory, views>>
        ELSE /\ isSearching' = TRUE
             /\ findSummaryButtonDisabled' = TRUE
             /\ summaryOutputHidden' = TRUE
             /\ searchStatusMessage' = "Searching..."
             /\ outstanding' = Sent(Request("/search_excerpt", query, << >>,
                    NoCharacter, << >>))
             /\ last' = "findBookSummary:sent"
             /\ UNCHANGED <<isAnalyzing, isChatting, session, inputs,
                            chatControls, analysisView, chatView, exported,
                            lastSucceeded, analysedStory, views>>

\* what the /search_excerpt backend may answer: an excerpt, with or without
\* sources
SearchResults == [excerpt : Excerpts, sources : BOOLEAN]
SearchResponses == Responses(SearchResults, [excerpt |-> Empty, sources |-> FALSE])

\* findBookSummary from its await to its end
SearchSettles(responses) ==
    \E req \in Awaiting("/search_excerpt"), resp \in responses :
        LET result == FetchAPI(resp) IN
        /\ outstanding' = Settled(req)
        /\ SearchFinally
        /\ last' = ""
        /\ IF result.threw
           THEN /\ searchStatusMessage' = "Search failed: " \o result.message
                /\ UNCHANGED <<summaryTextarea, summaryOutputHidden>>
           ELSE IF Truthy(result.value.excerpt)
           THEN /\ summaryTextarea' = Trim(result.value.excerpt)
                /\ summaryOutputHidden' = FALSE
                /\ searchStatusMessage' =
                       IF result.value.sources THEN "Excerpt found! Sources: ..."
                       ELSE "Excerpt found! Review the text below and copy it for analysis."
           ELSE /\ searchStatusMessage' =
                       "Could not find that specific excerpt. Try a different query."
                /\ UNCHANGED <<summaryTextarea, summaryOutputHidden>>
        /\ UNCHANGED <<isAnalyzing, isChatting, session, storyInput,
                       chatControls, analysisView, chatView, exported,
                       lastSucceeded, analysedStory, views>>

\* copySummaryToInput
CopySummaryToInput ==
    /\ storyInput' = summaryTextarea
    /\ summaryOutputHidden' = TRUE
    /\ searchStatusMessage' = "Excerpt copied! Ready for Step 2."
    /\ last' = ""
    /\ UNCHANGED <<flags, session, summaryTextarea, chatControls,
                   findSummaryButtonDisabled, analysisView, chatView, exported,
                   outstanding, lastSucceeded, analysedStory, views>>

(***************************************************************************)
(* Export.                                                                 *)
(***************************************************************************)
\* Exported taken from the last run that succeeded, started anew or not
ExportedLastSuccess == lastSucceeded

\* what downloadAnalysisData hands to the browser: nothing when
\* !lastAnalysisData, else the retained array (JSON.stringify of an array
\* of plain objects does not throw)
Exported == lastAnalysisData

\* downloadAnalysisData
DownloadAnalysisData ==
    /\ IF ~Exported.some
       THEN /\ alertText' = "Please run a successful story analysis first."
            /\ downloadedFile' = downloadedFile
            /\ last' = "download:none"
       ELSE /\ alertText' = "Analysis data download started!"
            /\ downloadedFile' = Exported
            /\ last' = "download:file"
    /\ UNCHANGED <<flags, session, inputs, chatControls, searchView,
                   analysisView, chatView, outstanding, lastSucceeded, analysedStory, views>>

(***************************************************************************)
(* The session: the analysis pipeline, the character selector and the     *)
(* chat, over the full sets of inputs.                                     *)
(***************************************************************************)
Next ==
    \/ EditStory(StoryTexts)
    \/ HandleAnalysis
    \/ AnalyzeSettles(AnalyzeResponses)
    \/ CharactersSettle(CharacterResponses)
    \/ ClickCharacter
    \/ HandleChat(ChatTexts)
    \/ ChatSettles(ChatResponses)

Spec == Init /\ [][Next]_vars

(***************************************************************************)
(* The analysis pipeline and the export of its result.                     *)
(***************************************************************************)
ExportNext ==
    \/ EditStory(StoryTexts)
    \/ HandleAnalysis
    \/ AnalyzeSettles(AnalyzeResponses)
    \/ CharactersSettle(CharacterResponses)
    \/ DownloadAnalysisData

ExportSpec == Init /\ [][ExportNext]_vars

(***************************************************************************)
(* The three request families side by side: every handler that sends a    *)
(* request, each backend answering with a success, a network failure, a    *)
(* server error, or a payload the handler rejects.                         *)
(***************************************************************************)
PageAnalyzeResponses ==
    Responses({Encoded("garbage", << >>), Encoded("array", TooFew),
               Encoded("array", Rising)}, Encoded("garbage", << >>))
PageCharacterResponses == Responses({<<"Mina">>}, << >>)
PageSearchResponses ==
    Responses([excerpt : Excerpts, sources : {FALSE}],
              [excerpt |-> Empty, sources |-> FALSE])

PageNext ==
    \/ EditStory({StoryA})
    \/ HandleAnalysis
    \/ AnalyzeSettles(PageAnalyzeResponses)
    \/ CharactersSettle(PageCharacterResponses)
    \/ HandleChat({Hello})
    \/ ChatSettles(ChatResponses)
    \/ FindBookSummary({Query5})
    \/ SearchSettles(PageSearchResponses)

PageSpec == Init /\ [][PageNext]_vars

\* every outstanding request is settled in the end
Settling ==
    /\ WF_vars(AnalyzeSettles(PageAnalyzeResponses))
    /\ WF_vars(CharactersSettle(PageCharacterResponses))
    /\ WF_vars(ChatSettles(ChatResponses))
    /\ WF_vars(SearchSettles(PageSearchResponses))

FairPageSpec == PageSpec /\ Settling

(***************************************************************************)
(* Browsing: the views, the excerpt search and the copy of the excerpt     *)
(* into the story input, the search backend answering with every kind of   *)
(* response fetchAPI tells apart.                                          *)
(***************************************************************************)
\* the HTTP statuses a backend may answer with
Statuses == {200, 201, 404, 500}

\* the `error` field of the body of a failure ("" when the body has none)
ServerErrors == {"", "Quota exceeded"}

\* every kind of response: no response at all, a body that is not JSON, a
\* JSON body carrying a payload on success and an error, or none, otherwise
AllResponses(payloads, none) ==
    {Response(FALSE, FALSE, 0, "", none)}
        \cup {Response(TRUE, FALSE, s, "", none) : s \in Statuses}
        \cup {Response(TRUE, TRUE, s, "", p) :
                  s \in {t \in Statuses : ResponseOk(t)}, p \in payloads}
        \cup {Response(TRUE, TRUE, s, e, none) :
                  s \in {t \in Statuses : ~ResponseOk(t)}, e \in ServerErrors}

BrowseSearchResponses ==
    AllResponses(SearchResults, [excerpt |-> Empty, sources |-> FALSE])

BrowseNext ==
    \/ SwitchView(ViewNames)
    \/ EditStory(StoryTexts)
    \/ FindBookSummary(QueryTexts)
    \/ SearchSettles(BrowseSearchResponses)
    \/ CopySummaryToInput

BrowseSpec == Init /\ [][BrowseNext]_vars

(***************************************************************************)
(* The analysis pipeline over analyses of many tension profiles: a, b and  *)
(* the remaining beats scoring 100, 33 and 0, and the rising profile.      *)
(***************************************************************************)
Profile(a, b) ==
    [i \in 1..NumBeats |->
        Item(IF i <= a THEN 100 ELSE IF i <= a + b THEN 33 ELSE 0)]

TensionProfiles ==
    {Rising} \cup UNION {{Profile(a, b) : b \in 0..(NumBeats - a)} :
                             a \in 0..NumBeats}

TensionAnalyzeResponses ==
    Responses({Encoded("array", p) : p \in TensionProfiles},
              Encoded("garbage", << >>))

TensionNext ==
    \/ EditStory({StoryA})
    \/ HandleAnalysis
    \/ AnalyzeSettles(TensionAnalyzeResponses)
    \/ CharactersSettle(PageCharacterResponses)

TensionSpec == Init /\ [][TensionNext]_vars

(***************************************************************************)
(* An analysis run with the story edited and a chat going on meanwhile.    *)
(***************************************************************************)
PipelineNext ==
    \/ EditStory(StoryTexts)
    \/ HandleAnalysis
    \/ AnalyzeSettles(PageAnalyzeResponses)
    \/ CharactersSettle(PageCharacterResponses)
    \/ HandleChat({Hello})
    \/ ChatSettles(ChatResponses)

PipelineSpec == Init /\ [][PipelineNext]_vars

(***************************************************************************)
(* Chatting about a story that changes: the user edits the story input or  *)
(* copies a found excerpt into it between an analysis and a chat message.  *)
(***************************************************************************)
\* an excerpt that differs from every story the user types
ExcerptB == Str(2, MinStoryLen, 0, "B")

ContextSearchResponses ==
    Responses({[excerpt |-> ExcerptB, sources |-> FALSE]},
              [excerpt |-> Empty, sources |-> FALSE])
ContextAnalyzeResponses ==
    Responses({Encoded("array", Rising)}, Encoded("garbage", << >>))

ContextNext ==
    \/ EditStory(StoryTexts)
    \/ FindBookSummary({Query5})
    \/ SearchSettles(ContextSearchResponses)
    \/ CopySummaryToInput
    \/ HandleAnalysis
    \/ AnalyzeSettles(ContextAnalyzeResponses)
    \/ CharactersSettle(PageCharacterResponses)
    \/ HandleChat({Hello})
    \/ ChatSettles(ChatResponses)

ContextSpec == Init /\ [][ContextNext]_vars

(***************************************************************************)
(* Properties of the handlers.                                             *)
(***************************************************************************)
ChatFamily == {"/chat"}
SearchFamily == {"/search_excerpt"}
AnalysisFamily == {"/analyze", "/extract_characters"}

HandleAnalysisBranches ==
    {"handleAnalysis:busy", "handleAnalysis:short", "handleAnalysis:sent"}
HandleChatBranches ==
    {"handleChat:blocked", "handleChat:empty", "handleChat:noStory",
     "handleChat:noCharacter", "handleChat:sent"}
FindBookSummaryBranches ==
    {"findBookSummary:busy", "findBookSummary:short", "findBookSummary:sent"}

\* C1: in every reachable state at most one /chat request, at most one
\* /search_excerpt request and at most one request of the analysis pipeline
\* (/analyze or /extract_characters) is outstanding; so a handleChat invoked
\* while a send is pending issues no second /chat request.
AtMostOneOutstanding ==
    /\ Pending(ChatFamily) <= 1
    /\ Pending(SearchFamily) <= 1
    /\ Pending(AnalysisFamily) <= 1

\* handleChat has just been refused while a /chat request, a search and an
\* analysis are all outstanding
RefusedWhileAllPending ==
    /\ last = "handleChat:blocked"
    /\ isChatting
    /\ Pending(ChatFamily) = 1
    /\ Pending(SearchFamily) = 1
    /\ Pending(AnalysisFamily) = 1

\* C2: when the request a handler awaits settles, with whatever outcome, and
\* the handler finishes, its busy-flag is false; given that every outstanding
\* request settles, a busy-flag that is true becomes false; and an invocation
\* whose preconditions hold while the flag is false sends a request again.
HandlerFinishes(family) ==
    Pending(family)' < Pending(family)

Sends(family) ==
    Pending(family)' = Pending(family) + 1

FlagsReleased ==
    /\ [][HandlerFinishes(ChatFamily) => ~isChatting']_vars
    /\ [][HandlerFinishes(SearchFamily) => ~isSearching']_vars
    /\ [][HandlerFinishes(AnalysisFamily) => ~isAnalyzing']_vars
    /\ isChatting ~> ~isChatting
    /\ isSearching ~> ~isSearching
    /\ isAnalyzing ~> ~isAnalyzing
    /\ [][(/\ last' \in HandleChatBranches \ {"handleChat:empty"}
           /\ ~isChatting /\ ~chatInputDisabled
           /\ Truthy(Trim(storyInput)) /\ activeCharacter # NoCharacter)
          => Sends(ChatFamily)]_vars
    /\ [][(/\ last' \in FindBookSummaryBranches \ {"findBookSummary:short"}
           /\ ~isSearching)
          => Sends(SearchFamily)]_vars
    /\ [][(/\ last' \in HandleAnalysisBranches
           /\ ~isAnalyzing /\ StrLen(Trim(storyInput)) >= MinStoryLen)
          => Sends(AnalysisFamily)]_vars

\* a send that follows a send which got no reply: both user messages are in
\* the history of the outstanding request
SendsAgainAfterFailure ==
    \E req \in Awaiting("/chat") :
        /\ Len(req.history) = 2
        /\ req.history[1].role = "user"
        /\ req.history[2].role = "user"
        /\ chatStatusMessage = activeCharacter \o " is thinking..."

\* C3: from the handling of a failed analysis step until a later analysis
\* succeeds, the chat input and the send button are both disabled, whatever
\* other handlers are in flight or complete meanwhile.
ChatDisabledAfterFailedAnalysis ==
    statusMessage = "Analysis failed."
        => chatInputDisabled /\ sendChatButtonDisabled

Retained == lastSucceeded.some /\ Exported = lastSucceeded

\* handleAnalysis accepts the story and starts a run
RunStarts == ~isAnalyzing /\ isAnalyzing'

\* a run reaches the end of updateUI
RunSucceeds ==
    isAnalyzing /\ ~isAnalyzing' /\ statusMessage' = "Analysis complete!"

WrongSized == {<< >>, TooFew, TooMany}

\* C5: when /analyze returns an array whose length is not 7, the handler
\* shows the structure error, sends no /extract_characters request and
\* finishes with the chat input and the send button disabled.
StructureErrorAborts ==
    [][\A a \in WrongSized :
           AnalyzeSettles({Response(TRUE, TRUE, 200, "", Encoded("array", a))})
               => /\ analysisOutput' =
                         [kind |-> "error",
                          message |-> "Error: Analysis structure error: Expected 7 items, got "
                                          \o ToString(Len(a)) \o "."]
                  /\ statusMessage' = "Analysis failed."
                  /\ Pending({"/extract_characters"})' = 0
                  /\ ~isAnalyzing'
                  /\ chatInputDisabled' /\ sendChatButtonDisabled']_vars

\* an array of 8 items has been turned down after an earlier analysis had
\* enabled the chat
StructureErrorShown ==
    /\ analysisOutput.kind = "error"
    /\ analysisOutput.message =
           "Error: Analysis structure error: Expected 7 items, got 8."
    /\ lastSucceeded.some
    /\ ~isAnalyzing
    /\ outstanding = EmptyBag
    /\ chatInputDisabled /\ sendChatButtonDisabled

\* the reply `text` with status 200
Replies(text) == Response(TRUE, TRUE, 200, "", text)

\* handleChat is invoked with the text `typed` and the four preconditions
\* the claim names hold
InvokedWithPreconditions(typed) ==
    /\ HandleChat({typed})
    /\ ~isChatting
    /\ Truthy(Trim(typed))
    /\ Truthy(Trim(storyInput))
    /\ activeCharacter # NoCharacter

\* the transcript grows by the user message, and the /chat request that is
\* sent carries the grown transcript
UserMessageSent(typed) ==
    /\ chatHistory' = Append(chatHistory, Message("user", Trim(typed)))
    /\ \E req \in Awaiting("/chat")' :
           /\ outstanding' = Sent(req)
           /\ req.history = chatHistory'
           /\ req.character = activeCharacter
           /\ req.text = Trim(storyInput)

\* a non-empty reply to a request whose history is still the transcript is
\* appended to it as a model message
ReplyAppended ==
    \A req \in Awaiting("/chat"), text \in {r \in ChatReplies : Truthy(r)} :
        (/\ ChatSettles({Replies(text)})
         /\ outstanding' = Settled(req)
         /\ chatHistory = req.history)
            => chatHistory' = Append(req.history, Message("model", text))

\* C6 as stated: with no send pending, a non-empty text, a story present and
\* an active character set, handleChat appends the user message to the
\* transcript T and sends T with the user message as the history; a
\* non-empty reply r then makes the transcript T, the user message and the
\* model message r, unless a character switch or an analysis completes in
\* between.
ChatRoundTrip ==
    [][/\ \A typed \in ChatTexts :
              InvokedWithPreconditions(typed) => UserMessageSent(typed)
       /\ ReplyAppended]_vars

\* C6 as amended: the same, for a handleChat invoked while the chat input is
\* enabled.
ChatRoundTripWhenEnabled ==
    [][/\ \A typed \in ChatTexts :
              (InvokedWithPreconditions(typed) /\ ~chatInputDisabled)
                  => UserMessageSent(typed)
       /\ ReplyAppended]_vars

\* the reply to the first message of a conversation has arrived
ReplyReceived ==
    /\ chatHistory = <<Message("user", Trim(Hello)), Message("model", Reply)>>
    /\ chatStatusMessage = "Response received."
    /\ ~isChatting
    /\ outstanding = EmptyBag

\* a run of handleAnalysis reaches the end of updateUI with the characters
\* `characters`
SucceedsWith(characters) ==
    CharactersSettle({Response(TRUE, TRUE, 200, "", characters)})

\* C7: every setActiveCharacter, on a click in the selector or at the end of
\* an analysis, leaves the transcript empty, whatever it held and whether or
\* not the character changes.
SwitchClearsTranscript ==
    [][(\/ ClickCharacter
        \/ \E characters \in CharacterLists : SucceedsWith(characters)
        \/ activeCharacter' # activeCharacter)
           => chatHistory' = << >>]_vars

\* the character has been switched while a send to the previous one is
\* pending: the transcript that held the user message is empty
SwitchedDuringSend ==
    \E req \in Awaiting("/chat") :
        /\ activeCharacter \notin {req.character, NoCharacter}
        /\ Len(req.history) = 2
        /\ chatHistory = << >>

\* C8: after a successful analysis whose extraction returns the non-empty
\* list L, the selector holds the elements of L in order and nothing else,
\* the active character is the first of L, the transcript is empty and the
\* chat input is enabled.
SelectorShowsExtraction ==
    [][\A characters \in CharacterLists \ {<< >>} :
           SucceedsWith(characters)
               => /\ characterSlots' = characters
                  /\ activeCharacter' = characters[1]
                  /\ chatHistory' = << >>
                  /\ ~chatInputDisabled']_vars

\* a second analysis has replaced the selector of the first, to whose first
\* character a send is still pending
SelectorReplaced ==
    /\ characterSlots = <<"Jonathan">>
    /\ activeCharacter = "Jonathan"
    /\ chatHistory = << >>
    /\ ~chatInputDisabled
    /\ \E req \in Awaiting("/chat") : req.character = "Mina"

NoStoryMessage ==
    "Error: Please run a successful analysis first to provide character context!"
NoCharacterMessage ==
    "Error: Please select a character icon to start chatting!"

\* handleChat is invoked with the text `typed` while one of the four
\* preconditions the claim names is violated
InvokedInViolation(typed) ==
    /\ HandleChat({typed})
    /\ \/ isChatting
       \/ ~Truthy(Trim(typed))
       \/ ~Truthy(Trim(storyInput))
       \/ activeCharacter = NoCharacter

\* C9 as stated: a handleChat invoked while a send is pending, with an empty
\* or whitespace-only text, with no story context or with no active
\* character produces a status message, sends no /chat request and leaves
\* the transcript unchanged.
ViolationReported ==
    [][\A typed \in ChatTexts :
           InvokedInViolation(typed)
               => /\ chatStatusMessage' \in {NoStoryMessage, NoCharacterMessage}
                  /\ outstanding' = outstanding
                  /\ chatHistory' = chatHistory]_vars

\* C9 as amended: such a handleChat sends no /chat request and leaves the
\* transcript unchanged.  It is silent, leaving the status message as it
\* was, when a send is pending, the chat input is disabled or the text is
\* empty or whitespace-only; otherwise it shows the message for the missing
\* story context or else the one for the missing active character.
ViolationRefused ==
    [][\A typed \in ChatTexts :
           InvokedInViolation(typed)
               => /\ outstanding' = outstanding
                  /\ chatHistory' = chatHistory
                  /\ chatStatusMessage' =
                         IF isChatting \/ chatInputDisabled \/ ~Truthy(Trim(typed))
                         THEN chatStatusMessage
                         ELSE IF ~Truthy(Trim(storyInput)) THEN NoStoryMessage
                         ELSE NoCharacterMessage]_vars

\* after an analysis that found no character, handleChat has turned down a
\* message for want of an active character
RefusedWithoutCharacter ==
    /\ last = "handleChat:noCharacter"
    /\ lastSucceeded.some
    /\ chatStatusMessage = NoCharacterMessage
    /\ activeCharacter = NoCharacter
    /\ ~chatInputDisabled /\ ~isChatting
    /\ Pending(ChatFamily) = 0

TooShortMessage ==
    "Error: Please enter a longer story (at least 100 characters) for a meaningful analysis."

\* handleAnalysis is invoked while the story input holds fewer than 100
\* characters
InvokedOnShortStory ==
    HandleAnalysis /\ StrLen(storyInput) < MinStoryLen

\* C10 as stated: for every story input shorter than 100 characters,
\* handleAnalysis sends no request, reports the validation message and
\* leaves the analyzing flag, the retained result, the transcript, the
\* active character and the chat controls as they were.
ShortStoryReported ==
    [][InvokedOnShortStory
           => /\ statusMessage' = TooShortMessage
              /\ UNCHANGED <<outstanding, isAnalyzing, lastAnalysisData,
                             chatHistory, activeCharacter, chatControls>>]_vars

\* C10 as amended: the same when no analysis is in flight; while one is in
\* flight handleAnalysis is silent and leaves the status message too.
ShortStoryRefused ==
    [][InvokedOnShortStory
           => /\ statusMessage' =
                     IF isAnalyzing THEN statusMessage ELSE TooShortMessage
              /\ UNCHANGED <<outstanding, isAnalyzing, lastAnalysisData,
                             chatHistory, activeCharacter, chatControls>>]_vars

\* a story of 99 characters has been turned down while the result of an
\* earlier analysis is retained and a conversation is under way
ShortStoryTurnedDown ==
    /\ last = "handleAnalysis:short"
    /\ StrLen(storyInput) = MinStoryLen - 1
    /\ statusMessage = TooShortMessage
    /\ lastAnalysisData.some
    /\ chatHistory # << >>
    /\ ~chatInputDisabled

\* everything but the history variable `last` is as it was
NothingChanges ==
    UNCHANGED <<flags, session, inputs, chatControls, searchView, analysisView,
                chatView, exported, views, outstanding, lastSucceeded>>

\* C11: handleAnalysis invoked while isAnalyzing, findBookSummary invoked
\* while isSearching and handleChat invoked while isChatting, whatever the
\* user has typed, issue no request and leave the busy-flags, the retained
\* analysis, the transcript, the active character, the chat controls, the
\* inputs and every status message unchanged.
ReentrantCallIsNoOp ==
    [][/\ (HandleAnalysis /\ isAnalyzing) => NothingChanges
       /\ \A typed \in QueryTexts :
              (FindBookSummary({typed}) /\ isSearching) => NothingChanges
       /\ \A typed \in ChatTexts :
              (HandleChat({typed}) /\ isChatting) => NothingChanges]_vars

\* findBookSummary has been turned away while its own search, an analysis
\* with a valid story in the input and a chat send are all pending
SearchRefusedWhileSearching ==
    /\ last = "findBookSummary:busy"
    /\ isSearching /\ Pending(SearchFamily) = 1
    /\ isAnalyzing /\ isChatting
    /\ ~StoryTooShort(Trim(storyInput))

\* the message the claim gives the error of a non-success response: the
\* error string of the body when it carries one, else the generic one
ClaimedFailureMessage(resp) ==
    IF resp.json /\ resp.error # "" THEN resp.error
    ELSE ServerErrorMessage(resp.status)

\* C12: for every response with a non-success status, whatever its body, the
\* fetchAPI call of findBookSummary fails with the server-provided error
\* string when the body carries one and with "Server error: <status>"
\* otherwise; no result reaches the page, and the one request of the call is
\* consumed without another being sent.
NonSuccessFailsWithServerMessage ==
    [][\A resp \in BrowseSearchResponses :
           (resp.net /\ ~ResponseOk(resp.status) /\ SearchSettles({resp}))
               => /\ searchStatusMessage' =
                         "Search failed: " \o ClaimedFailureMessage(resp)
                  /\ UNCHANGED <<summaryTextarea, summaryOutputHidden>>
                  /\ outstanding' = EmptyBag]_vars

NoResultMessage == "Please run a successful story analysis first."

\* C13: whenever lastAnalysisData holds no result, downloadAnalysisData
\* reports "Please run a successful story analysis first.", hands no file to
\* the browser and leaves the session state unchanged.
NoResultNoFile ==
    [][(DownloadAnalysisData /\ ~lastAnalysisData.some)
           => /\ alertText' = NoResultMessage
              /\ downloadedFile' = downloadedFile
              /\ UNCHANGED <<flags, session, inputs, chatControls, searchView,
                             analysisView, chatView, views, outstanding>>]_vars

\* a download has been asked for, and turned down, before any analysis ran
DownloadTurnedDown ==
    /\ last = "download:none"
    /\ alertText = NoResultMessage
    /\ downloadedFile = NoData
    /\ ~lastAnalysisData.some /\ ~lastSucceeded.some
    /\ ~isAnalyzing /\ statusMessage = ""

\* the panels that do not carry the class `hidden`
Visible == {key \in ViewKeys : ~views[key]}

\* C14 as stated: after the page has loaded and after any sequence of
\* switchView calls exactly one panel is visible, and after a call it is the
\* panel the call names.
OneViewVisible ==
    /\ [](Cardinality(Visible) = 1)
    /\ [][\A name \in ViewNames :
              SwitchView({name}) => Visible' = {name}]_vars

\* C14 as amended: at most one panel is visible at any time; it is the
\* analysis panel once the page has loaded, after a switchView naming a view
\* it is that view's panel alone, and after a switchView with a name that is
\* no view no panel is visible.
OneViewVisibleWhenNamed ==
    /\ Visible = {"analysis"}
    /\ [](Cardinality(Visible) <= 1)
    /\ [][\A name \in ViewNames :
              SwitchView({name}) => Visible' = {name} \cap ViewKeys]_vars

\* the user has moved from the analysis view to the about view while a
\* search is in flight
AboutShownAlone ==
    /\ last = "switchView:about"
    /\ Visible = {"about"}
    /\ isSearching

QueryTooShortMessage ==
    "Please enter a title and a specific section (e.g., 'Chapter 5 of Dracula')."

\* findBookSummary is invoked while #bookTitleInput holds `typed`, a text of
\* fewer than 5 characters
InvokedOnShortQuery(typed) ==
    FindBookSummary({typed}) /\ StrLen(typed) < MinQueryLen

\* C15 as stated: for every query shorter than 5 characters, findBookSummary
\* sends no request, shows the validation message and does not set the
\* searching flag.
ShortQueryReported ==
    [][\A typed \in QueryTexts :
           InvokedOnShortQuery(typed)
               => /\ searchStatusMessage' = QueryTooShortMessage
                  /\ outstanding' = outstanding
                  /\ isSearching' = isSearching]_vars

\* C15 as amended: the same when no search is in flight; while one is in
\* flight findBookSummary is silent and leaves the status message as it was.
ShortQueryRefused ==
    [][\A typed \in QueryTexts :
           InvokedOnShortQuery(typed)
               => /\ searchStatusMessage' =
                         IF isSearching THEN searchStatusMessage
                         ELSE QueryTooShortMessage
                  /\ outstanding' = outstanding
                  /\ isSearching' = isSearching]_vars

\* a query of 4 characters has been turned down after an earlier search
\* had found an excerpt
ShortQueryTurnedDown ==
    /\ last = "findBookSummary:short"
    /\ searchStatusMessage = QueryTooShortMessage
    /\ ~isSearching /\ outstanding = EmptyBag
    /\ ~summaryOutputHidden

\* the sum of the tension scores of the analysis shown in the summary panel
ShownTotal ==
    Sum([i \in 1..NumBeats |-> lastSucceeded.val[i].TensionScore])

\* C16: when the summary panel shows an analysis of 7 integer tension scores
\* in 0..100, its average tension is the integer nearest to the sum of the
\* scores divided by 7; for the scores 10, 20, ..., 70 it is 40.
AverageIsRoundedMean ==
    analysisOutputSummary.shown
        => LET shown == analysisOutputSummary.average IN
           /\ 2 * (NumBeats * shown - ShownTotal) <= NumBeats
           /\ 2 * (ShownTotal - NumBeats * shown) <= NumBeats
           /\ (lastSucceeded.val = Rising => shown = 40)

\* the panel shows an average that was rounded up: a single beat of 33, the
\* mean 4.71 shown as 5
AverageRoundedUp ==
    /\ analysisOutputSummary.shown
    /\ lastSucceeded = Data(Profile(0, 1))
    /\ analysisOutputSummary.average = 5
    /\ statusMessage = "Analysis complete!"

\* the transcript has been reset since `req` was sent: no second send can
\* start while `req` is pending, so otherwise the transcript is still the
\* history `req` carries
ResetSince(req) == chatHistory # req.history

\* C17: a reply is appended only if the transcript has not been reset, by a
\* character switch or a completed analysis, since its request was sent and
\* the request was made for the character now active; and in every state
\* each model message of the transcript directly follows the user message
\* it answers.
ReplyJoinsOwnTranscript ==
    /\ [](\A i \in 1..Len(chatHistory) :
             chatHistory[i].role = "model"
                 => i > 1 /\ chatHistory[i - 1].role = "user")
    /\ [][\A resp \in ChatResponses :
              ChatSettles({resp})
                  => \A req \in Awaiting("/chat") :
                         (ResetSince(req) \/ req.character # activeCharacter)
                             => chatHistory' = chatHistory]_vars

\* the roles of the transcript alternate, the first being user
Alternates(history) ==
    \A i \in 1..Len(history) :
        history[i].role = (IF i % 2 = 1 THEN "user" ELSE "model")

\* C18: in every reachable state the roles of the transcript alternate
\* strictly, starting with user, also after failed or empty replies.
TranscriptAlternates == Alternates(chatHistory)

\* the analysis run that finished last ended in the catch block
LastRunFailed == analysisOutput.kind = "error"

\* C19: when the most recent analysis run ended in failure at any step, the
\* failure of /extract_characters after a valid analysis included,
\* downloadAnalysisData reports the error and hands no file to the browser.
NoFileAfterFailedRun ==
    [][(DownloadAnalysisData /\ LastRunFailed)
           => /\ alertText' = NoResultMessage
              /\ downloadedFile' = downloadedFile]_vars

\* the response carries a payload that parses to an array of exactly 7 items
SevenItems(resp) ==
    /\ resp.net /\ resp.json /\ ResponseOk(resp.status)
    /\ resp.payload.kind = "array"
    /\ Len(resp.payload.items) = NumBeats

\* the response is a success
Succeeded(resp) == resp.net /\ resp.json /\ ResponseOk(resp.status)

\* the step turns a chat control from disabled to enabled
EnablesChat ==
    \/ chatInputDisabled /\ ~chatInputDisabled'
    \/ sendChatButtonDisabled /\ ~sendChatButtonDisabled'

ChatSendsAnalysedStory ==
    [][(HandleChat({Hello}) /\ outstanding' # outstanding)
           => \A req \in Awaiting("/chat")' : req.text = analysedStory]_vars

\* the characters the selector offers
Offered == {characterSlots[i] : i \in 1..Len(characterSlots)}

\* C22: when an analysis succeeds the selector becomes the list its
\* extraction returned, empty when that list is empty, and no other step
\* changes the selector; in every state after a successful analysis the
\* active character is none or one of the characters offered.
SelectorFollowsExtraction ==
    /\ [](lastSucceeded.some => activeCharacter \in Offered \cup {NoCharacter})
    /\ [][IF \E characters \in CharacterLists : SucceedsWith(characters)
          THEN \A characters \in CharacterLists :
                   SucceedsWith(characters) => characterSlots' = characters
          ELSE characterSlots' = characterSlots]_vars

=============================================================================
